---- MODULE Spec2Model ----
(***************************************************************************)
(* Model of GoogleAdsService (src/app/services/google_ads_service.py):     *)
(* the constructor, the OAuth2 token exchange, the authenticated request   *)
(* pipeline with its single refresh-and-retry on 401, and the public       *)
(* methods built on it (campaign lookup, budget/bid update, bidding        *)
(* strategy update).                                                       *)
(*                                                                         *)
(* Python values are encoded as follows.  An optional value is a sequence  *)
(* of length 0 (None / absent) or 1.  The cached access token is a string; *)
(* NoToken stands for None and "" for the empty string, both falsy.  A     *)
(* network outcome that raises inside aiohttp (connection failure, body    *)
(* read or JSON decode failure) is the outcome with net_ok = FALSE.        *)
(***************************************************************************)
EXTENDS Integers, Sequences, FiniteSets, TLC

\* ---------------------------------------------------------------- bounds
\* Largest number of result rows a search response carries.
MaxRows == 2

\* ------------------------------------------------------ program constants
HTTP_OK == 200
HTTP_UNAUTHORIZED == 401
HTTP_BAD_REQUEST == 400
HTTP_NOT_FOUND == 404
HTTP_INTERNAL == 500

\* ------------------------------------------------------------ input sets
Callers == {"a", "b"}
\* Calls made one after the other all come from one caller.
Serial == {"a"}

CredNames == {"developer_token", "client_id", "client_secret",
              "refresh_token", "login_customer_id"}
\* os.getenv gives None (unset), "" (set but empty) or a value.
CredValues == {"None", "", "set"}

NoToken == "None"
\* The tokens the endpoint issues: non-empty strings, as OAuth2 requires of a
\* successful answer (RFC 6749, access-token = 1*VSCHAR).
TokenValues == {"tok1", "tok2", "tok3"}

Statuses == {200, 201, 401, 500}
Methods == {"GET", "POST", "PUT"}
Strategies == {"MAXIMIZE_CONVERSIONS", "TARGET_CPA", "INVALID"}
\* An optional amount: <<>> is None, <<0>> is zero, <<5>> a positive amount.
Amounts == {<<>>, <<0>>, <<5>>}

\* A campaign object of a search row: its name, bidding strategy type and
\* the resource name of its budget ("" when the field is absent).
Campaigns == { [name |-> "A", biddingStrategyType |-> "MANUAL_CPC",
                campaignBudget |-> "customers/1/campaignBudgets/7"],
               [name |-> "B", biddingStrategyType |-> "TARGET_SPEND",
                campaignBudget |-> ""] }
EmptyCampaign == [name |-> "", biddingStrategyType |-> "Unknown", campaignBudget |-> ""]
\* A result row: campaign is <<>> when the row has no "campaign" key.
Rows == { [campaign |-> <<>>] } \cup { [campaign |-> <<c>>] : c \in Campaigns }
RowSeqs == UNION { [1..n -> Rows] : n \in 0..MaxRows }
\* A response body: results is <<>> when the body has no "results" key,
\* else <<rows>>.
Bodies == { [results |-> <<>>] } \cup { [results |-> <<rs>>] : rs \in RowSeqs }

\* The payloads of error answers: two distinct ones.
ErrorBodies == { [results |-> <<>>], [results |-> << <<>> >>] }
\* What the API answers to one attempt: a transport failure, a 2xx answer
\* with any body, or an error answer with an error payload.
Responses == { [net_ok |-> FALSE, status |-> 0, body |-> [results |-> <<>>]] }
             \cup { [net_ok |-> TRUE, status |-> s, body |-> b] :
                    s \in Statuses \cap (200..299), b \in Bodies }
             \cup { [net_ok |-> TRUE, status |-> s, body |-> b] :
                    s \in Statuses \ (200..299), b \in ErrorBodies }
\* What the token endpoint answers to one exchange.
NoReply == [net_ok |-> FALSE, has_token |-> FALSE, access_token |-> ""]
TokenReplies == { [net_ok |-> FALSE, has_token |-> FALSE, access_token |-> ""],
                  [net_ok |-> TRUE, has_token |-> FALSE, access_token |-> ""] }
                \cup { [net_ok |-> TRUE, has_token |-> TRUE, access_token |-> t] :
                       t \in TokenValues }

\* ------------------------------------------------------- python helpers
\* Truthiness of a string-or-None value.
Truthy(v) == v # NoToken /\ v # ""
\* Truthiness of an optional number.
TruthyNum(o) == o # <<>> /\ o[1] # 0

\* The outcome of a call: kind is "none" (not finished), "return" or
\* "raise".  A raise is an HTTPException with status and detail; text is the
\* response text the detail quotes.  A return carries one of json (a parsed
\* body), campaign (a campaign object), response (an update status dict) or
\* list (the reshaped rows of a listing).
NoOutcome == [kind |-> "none", status |-> 0, detail |-> "", text |-> <<>>,
              json |-> <<>>, campaign |-> <<>>, response |-> <<>>, list |-> <<>>]
Raise(status, detail, text) ==
    [NoOutcome EXCEPT !.kind = "raise", !.status = status, !.detail = detail,
                      !.text = text]
ReturnJson(body) == [NoOutcome EXCEPT !.kind = "return", !.json = <<body>>]
ReturnCampaign(c) == [NoOutcome EXCEPT !.kind = "return", !.campaign = <<c>>]
ReturnResponse(r) == [NoOutcome EXCEPT !.kind = "return", !.response = <<r>>]
ReturnList(items) == [NoOutcome EXCEPT !.kind = "return", !.list = <<items>>]


\* ------------------------------------------------------------ the state
VARIABLES
    client,        \* "unbuilt", "ready" or "config_error" (__init__ raised)
    env,           \* the five credential environment variables
    access_token,  \* self.access_token, the cached bearer token
    call           \* per caller: the public call in progress and its locals

vars == <<client, env, access_token, call>>

\* No response received yet.
NoResponse == [net_ok |-> FALSE, status |-> 0, body |-> [results |-> <<>>]]

\* An update status dict: success flag and the per-field entries.
NewResponse == [success |-> TRUE, updates |-> <<>>]

\* A caller with no call in progress.  rlog is the network log of the
\* current _make_request (token exchanges and API attempts, in order), last
\* the latest API response and reply the latest token endpoint answer it
\* received, res its outcome; net, api and mutates count the network calls,
\* the API attempts and the mutate requests of the whole public call; out is
\* the outcome of the public call.
IdleCall ==
    [op |-> "idle", pc |-> "idle", phase |-> "none", method |-> "none",
     new_budget |-> <<>>, new_bid |-> <<>>, strategy |-> "none",
     hdr |-> NoToken, tok0 |-> NoToken, rlog |-> <<>>, res |-> NoOutcome,
     last |-> NoResponse, reply |-> NoReply, net |-> 0, api |-> 0, mutates |-> 0,
     campaign_info |-> <<>>, response |-> NewResponse, out |-> NoOutcome]

AuthEvent(ok, tok) == [ev |-> "auth", ok |-> ok, tok |-> tok, status |-> 0]
ApiEvent(resp, tok) == [ev |-> "api", ok |-> resp.net_ok, tok |-> tok, status |-> resp.status]

\* ------------------------------------------------------------- __init__
\* Variant: tests the credentials against None only, not for emptiness.
CredsPresent_NotNone(e) == \A k \in CredNames : e[k] # "None"

CredsPresent(e) == \A k \in CredNames : Truthy(e[k])

\* ---------------------------------------------------- _get_access_token
AuthError == Raise(HTTP_INTERNAL, "Error authenticating", <<>>)

\* Variant: the token is read with a default instead of testing for the
\* field, so an answer without it yields None.
GetAccessToken_NoFieldCheck(reply) ==
    IF reply.net_ok
    THEN [ok |-> TRUE, token |-> IF reply.has_token THEN reply.access_token ELSE NoToken]
    ELSE [ok |-> FALSE, token |-> NoToken]

GetAccessToken(reply) ==
    IF reply.net_ok /\ reply.has_token
    THEN [ok |-> TRUE, token |-> reply.access_token]
    ELSE [ok |-> FALSE, token |-> NoToken]

\* --------------------------------------------------------- _make_request
CommError == Raise(HTTP_INTERNAL, "Error communicating with Google Ads API", <<>>)
UnsupportedMethod ==
    Raise(HTTP_INTERNAL, "Error communicating with Google Ads API: Unsupported method", <<>>)
ApiError(resp) == Raise(resp.status, "Google Ads API error", <<resp.body>>)

SupportedMethod(m) == m \in {"GET", "POST"}
\* Variant: any answer other than 200 is taken for an expired token.
TokenExpired_AnyFailure(status) == status # HTTP_OK

TokenExpired(status) == status = HTTP_UNAUTHORIZED
Succeeded(status) == status = HTTP_OK

\* The branch taken on the first response: kind "refresh" stands for the
\* 401 branch, which goes on to refresh the token.
FirstAttemptOutcome(resp) ==
    IF ~resp.net_ok THEN CommError
    ELSE IF TokenExpired(resp.status) THEN [NoOutcome EXCEPT !.kind = "refresh"]
    ELSE IF ~Succeeded(resp.status) THEN ApiError(resp)
    ELSE ReturnJson(resp.body)

\* Variant: the retry's answer is never returned, whatever its status.
RetryOutcome_NeverReturns(resp) ==
    IF ~resp.net_ok THEN CommError ELSE ApiError(resp)

\* Variant: the retry's answer is handled like the first one, a 401
\* leading to a further refresh.
RetryOutcome_AsFirstAttempt(resp) == FirstAttemptOutcome(resp)

\* The branch taken on the response to the retry.
RetryOutcome(resp) ==
    IF ~resp.net_ok THEN CommError
    ELSE IF ~Succeeded(resp.status) THEN ApiError(resp)
    ELSE ReturnJson(resp.body)

\* Variant: the token exchange is awaited on every request, cached token or
\* not.
Setup_AlwaysAuth(cr, method, phase, tok) ==
    [cr EXCEPT !.method = method, !.phase = phase, !.tok0 = tok,
               !.rlog = <<>>, !.res = NoOutcome, !.last = NoResponse,
               !.reply = NoReply,
               !.hdr = NoToken, !.pc = "auth_initial"]

\* Entry of _make_request up to its first await: with a cached token the
\* headers are built from it and the call is issued, without one the token
\* exchange is awaited first.
Setup(cr, method, phase, tok) ==
    [cr EXCEPT !.method = method, !.phase = phase, !.tok0 = tok,
               !.rlog = <<>>, !.res = NoOutcome, !.last = NoResponse,
               !.reply = NoReply,
               !.hdr = IF Truthy(tok) THEN tok ELSE NoToken,
               !.pc = IF Truthy(tok) THEN "attempt1" ELSE "auth_initial"]

\* ------------------------------------------------- the public methods
Done(cr, o) == [cr EXCEPT !.pc = "done", !.out = o]

RowCampaign(row) == IF row.campaign = <<>> THEN EmptyCampaign ELSE row.campaign[1]
FirstRow(rows) == rows[1]

\* Variant: no check for an empty result; the empty object is returned.
CampaignInfo_NoEmptyCheck(r) ==
    IF r.kind = "raise" THEN r
    ELSE LET b == r.json[1] IN
         IF b.results # <<>> /\ Len(b.results[1]) > 0
         THEN ReturnCampaign(RowCampaign(FirstRow(b.results[1])))
         ELSE ReturnCampaign(EmptyCampaign)

\* _get_campaign_info, from the outcome r of its search request.
CampaignInfo(r) ==
    IF r.kind = "raise" THEN r
    ELSE LET b == r.json[1] IN
         IF b.results # <<>> /\ Len(b.results[1]) > 0
         THEN ReturnCampaign(RowCampaign(FirstRow(b.results[1])))
         ELSE Raise(HTTP_NOT_FOUND, "Campaign not found", <<>>)

Entry(type, status) == [type |-> type, status |-> status]

\* Variant: a failed mutate leaves the success flag as it was.
RecordMutate_KeepsSuccess(resp, type, r) ==
    [resp EXCEPT !.updates =
        Append(@, Entry(type, IF r.kind = "return" THEN "success" ELSE "failed"))]

\* The outcome of a mutate request recorded in the status dict.
RecordMutate(resp, type, r) ==
    IF r.kind = "return"
    THEN [resp EXCEPT !.updates = Append(@, Entry(type, "success"))]
    ELSE [success |-> FALSE, updates |-> Append(resp.updates, Entry(type, "failed"))]

\* update_bid_and_budget from the bid stub to its return.
FinishBudget(cr) ==
    Done(cr, ReturnResponse(
        IF TruthyNum(cr.new_bid)
        THEN [cr.response EXCEPT !.updates = Append(@, Entry("bid", "not_implemented"))]
        ELSE cr.response))

\* update_bid_and_budget after the campaign lookup.
BudgetAfterLookup(cr, ci, tok) ==
    IF ci.kind = "raise" THEN Done(cr, ci)
    ELSE LET info == ci.campaign[1]
             cr1 == [cr EXCEPT !.campaign_info = <<info>>, !.response = NewResponse]
         IN IF TruthyNum(cr.new_budget)
            THEN IF info.campaignBudget = ""
                 THEN Done(cr1, Raise(HTTP_BAD_REQUEST, "Campaign budget resource not found", <<>>))
                 ELSE Setup([cr1 EXCEPT !.mutates = @ + 1], "POST", "mutate", tok)
            ELSE FinishBudget(cr1)

\* Variant: a failed budget mutate is requested once more.
BudgetAfterMutate_RetriesOnFailure(cr, r) ==
    IF r.kind = "raise" /\ cr.mutates < 2
    THEN Setup([cr EXCEPT !.mutates = @ + 1], "POST", "mutate", cr.hdr)
    ELSE FinishBudget([cr EXCEPT !.response = RecordMutate(cr.response, "budget", r)])

\* update_bid_and_budget after the budget mutate request.
BudgetAfterMutate(cr, r) ==
    FinishBudget([cr EXCEPT !.response = RecordMutate(cr.response, "budget", r)])

ValidStrategies == {"MAXIMIZE_CONVERSIONS", "MAXIMIZE_CONVERSION_VALUE", "TARGET_CPA",
                    "TARGET_ROAS", "MANUAL_CPC", "TARGET_SPEND"}

\* update_bidding_strategy after the campaign lookup.
StrategyAfterLookup(cr, ci, tok) ==
    IF ci.kind = "raise" THEN Done(cr, ci)
    ELSE LET cr1 == [cr EXCEPT !.campaign_info = <<ci.campaign[1]>>] IN
         IF cr.strategy \notin ValidStrategies
         THEN Done(cr1, Raise(HTTP_BAD_REQUEST, "Invalid bidding strategy", <<>>))
         ELSE Setup([cr1 EXCEPT !.response = NewResponse, !.mutates = @ + 1],
                    "POST", "mutate", tok)

\* update_bidding_strategy after the campaigns mutate request.
StrategyAfterMutate(cr, r) ==
    Done(cr, ReturnResponse(RecordMutate(cr.response, "bidding_strategy", r)))

\* The methods that make one search request and reshape its rows.
ListOps == {"list_client_accounts", "list_campaigns", "get_campaign_performance"}

\* The entry a listing makes of one row: the name it reads from the row's
\* campaign object ("" without one; list_client_accounts reads the
\* customerClient object, which these rows do not carry).
ListEntry(op, row) ==
    IF op = "list_client_accounts" \/ row.campaign = <<>> THEN [name |-> ""]
    ELSE [name |-> row.campaign[1].name]

\* list_client_accounts, list_campaigns and get_campaign_performance, from
\* the outcome r of their search request.
Listing(op, r) ==
    IF r.kind = "raise" THEN r
    ELSE LET b == r.json[1]
             rows == IF b.results = <<>> THEN <<>> ELSE b.results[1]
         IN ReturnList([i \in 1..Len(rows) |-> ListEntry(op, rows[i])])

\* What the caller of _make_request does with its outcome r, up to the next
\* await or to the end of the public call; tok is the cached token then.
Complete(cr0, r, tok) ==
    LET cr == [cr0 EXCEPT !.res = r] IN
    CASE cr.op = "request" -> Done(cr, r)
      [] cr.op = "get_campaign_info" -> Done(cr, CampaignInfo(r))
      [] cr.op \in ListOps -> Done(cr, Listing(cr.op, r))
      [] cr.op = "update_bid_and_budget" ->
            IF cr.phase = "lookup" THEN BudgetAfterLookup(cr, CampaignInfo(r), tok)
            ELSE BudgetAfterMutate(cr, r)
      [] cr.op = "update_bidding_strategy" ->
            IF cr.phase = "lookup" THEN StrategyAfterLookup(cr, CampaignInfo(r), tok)
            ELSE StrategyAfterMutate(cr, r)

\* _make_request once the headers are built: the method dispatch.
Dispatch(cr, tok) ==
    IF SupportedMethod(cr.method) THEN [cr EXCEPT !.pc = "attempt1"]
    ELSE Complete(cr, UnsupportedMethod, tok)

\* A call of _make_request, up to its first await.
Enter(cr, method, phase, tok) ==
    LET s == Setup(cr, method, phase, tok) IN
    IF Truthy(tok) THEN Dispatch(s, tok) ELSE s

Fresh(op, nb, bid, strat) ==
    [IdleCall EXCEPT !.op = op, !.new_budget = nb, !.new_bid = bid, !.strategy = strat]

\* Variant: the amounts are not checked before the campaign lookup.
EnterUpdateBidAndBudget_LookupFirst(cr, tok) == Enter(cr, "POST", "lookup", tok)

\* update_bid_and_budget up to its first await.
EnterUpdateBidAndBudget(cr, tok) ==
    IF ~TruthyNum(cr.new_budget) /\ ~TruthyNum(cr.new_bid)
    THEN Done(cr, Raise(HTTP_BAD_REQUEST, "Either new budget or new bid must be provided", <<>>))
    ELSE Enter(cr, "POST", "lookup", tok)

\* update_bidding_strategy up to its first await.
EnterUpdateBiddingStrategy(cr, tok) == Enter(cr, "POST", "lookup", tok)

\* ---------------------------------------------------------------- actions
Quiet == \A c \in Callers : call[c].op = "idle"

Init ==
    /\ client = "unbuilt"
    /\ env \in [CredNames -> CredValues]
    /\ access_token = NoToken
    /\ call = [c \in Callers |-> IdleCall]

\* GoogleAdsService()
Construct ==
    /\ client = "unbuilt"
    /\ client' = IF CredsPresent(env) THEN "ready" ELSE "config_error"
    /\ access_token' = NoToken
    /\ UNCHANGED <<env, call>>

\* _make_request(endpoint, method, data) called directly.
CallRequest(c, m) ==
    /\ client = "ready" /\ Quiet
    /\ call' = [call EXCEPT ![c] =
                  Enter(Fresh("request", <<>>, <<>>, "none"), m, "single", access_token)]
    /\ UNCHANGED <<client, env, access_token>>

CallGetCampaignInfo(c) ==
    /\ client = "ready" /\ Quiet
    /\ call' = [call EXCEPT ![c] =
                  Enter(Fresh("get_campaign_info", <<>>, <<>>, "none"),
                        "POST", "single", access_token)]
    /\ UNCHANGED <<client, env, access_token>>

\* list_client_accounts(), list_campaigns(...) or get_campaign_performance(...)
CallListing(c, op) ==
    /\ client = "ready" /\ Quiet
    /\ call' = [call EXCEPT ![c] =
                  Enter(Fresh(op, <<>>, <<>>, "none"), "POST", "single", access_token)]
    /\ UNCHANGED <<client, env, access_token>>

CallUpdateBidAndBudget(c, nb, bid) ==
    /\ client = "ready" /\ Quiet
    /\ call' = [call EXCEPT ![c] =
                  EnterUpdateBidAndBudget(Fresh("update_bid_and_budget", nb, bid, "none"),
                                          access_token)]
    /\ UNCHANGED <<client, env, access_token>>

CallUpdateBiddingStrategy(c, s) ==
    /\ client = "ready" /\ Quiet
    /\ call' = [call EXCEPT ![c] =
                  EnterUpdateBiddingStrategy(Fresh("update_bidding_strategy", <<>>, <<>>, s),
                                             access_token)]
    /\ UNCHANGED <<client, env, access_token>>

\* Variant: after a token exchange the headers are rebuilt from the token
\* that was cached before it.
Exchange_StaleHeader(c, reply, next) ==
    LET a == GetAccessToken(reply)
        cr == [call[c] EXCEPT !.net = @ + 1, !.reply = reply,
                              !.rlog = Append(@, AuthEvent(a.ok, a.token))]
    IN IF a.ok
       THEN /\ access_token' = a.token
            /\ call' = [call EXCEPT ![c] =
                          IF next = "attempt1"
                          THEN Dispatch([cr EXCEPT !.hdr = access_token], a.token)
                          ELSE [cr EXCEPT !.hdr = access_token, !.pc = next]]
       ELSE /\ access_token' = access_token
            /\ call' = [call EXCEPT ![c] = Complete(cr, AuthError, access_token)]

\* Variant: a failed token exchange clears the cached token.
Exchange_ClearsOnFailure(c, reply, next) ==
    LET a == GetAccessToken(reply)
        cr == [call[c] EXCEPT !.net = @ + 1, !.reply = reply,
                              !.rlog = Append(@, AuthEvent(a.ok, a.token))]
    IN IF a.ok
       THEN /\ access_token' = a.token
            /\ call' = [call EXCEPT ![c] =
                          IF next = "attempt1"
                          THEN Dispatch([cr EXCEPT !.hdr = a.token], a.token)
                          ELSE [cr EXCEPT !.hdr = a.token, !.pc = next]]
       ELSE /\ access_token' = NoToken
            /\ call' = [call EXCEPT ![c] = Complete(cr, AuthError, NoToken)]

\* One token exchange of caller c answered by reply; next is the position
\* reached when it succeeds.
Exchange(c, reply, next) ==
    LET a == GetAccessToken(reply)
        cr == [call[c] EXCEPT !.net = @ + 1, !.reply = reply,
                              !.rlog = Append(@, AuthEvent(a.ok, a.token))]
    IN IF a.ok
       THEN /\ access_token' = a.token
            /\ call' = [call EXCEPT ![c] =
                          IF next = "attempt1"
                          THEN Dispatch([cr EXCEPT !.hdr = a.token], a.token)
                          ELSE [cr EXCEPT !.hdr = a.token, !.pc = next]]
       ELSE /\ access_token' = access_token
            /\ call' = [call EXCEPT ![c] = Complete(cr, AuthError, access_token)]

\* The token exchange awaited before the first attempt is answered.
AuthInitialReply(c, reply) ==
    /\ call[c].pc = "auth_initial"
    /\ Exchange(c, reply, "attempt1")
    /\ UNCHANGED <<client, env>>

\* The first attempt is answered.
Attempt1(c, resp) ==
    /\ call[c].pc = "attempt1"
    /\ LET cr == [call[c] EXCEPT !.net = @ + 1, !.api = @ + 1, !.last = resp,
                                 !.rlog = Append(@, ApiEvent(resp, call[c].hdr))]
           o == FirstAttemptOutcome(resp)
       IN call' = [call EXCEPT ![c] =
                     IF o.kind = "refresh" THEN [cr EXCEPT !.pc = "refresh"]
                     ELSE Complete(cr, o, access_token)]
    /\ UNCHANGED <<client, env, access_token>>

\* The token exchange awaited after a 401 is answered.
RefreshReply(c, reply) ==
    /\ call[c].pc = "refresh"
    /\ Exchange(c, reply, "attempt2")
    /\ UNCHANGED <<client, env>>

\* The retry is answered.
Attempt2(c, resp) ==
    /\ call[c].pc = "attempt2"
    /\ LET cr == [call[c] EXCEPT !.net = @ + 1, !.api = @ + 1, !.last = resp,
                                 !.rlog = Append(@, ApiEvent(resp, call[c].hdr))]
       IN call' = [call EXCEPT ![c] = Complete(cr, RetryOutcome(resp), access_token)]
    /\ UNCHANGED <<client, env, access_token>>

\* The public call has returned or raised; its caller goes on.
ReturnToCaller(c) ==
    /\ call[c].pc = "done"
    /\ call' = [call EXCEPT ![c] = IdleCall]
    /\ UNCHANGED <<client, env, access_token>>

Next ==
    \/ Construct
    \/ \E c \in Serial, m \in Methods : CallRequest(c, m)
    \/ \E c \in Serial : CallGetCampaignInfo(c)
    \/ \E c \in Serial, op \in ListOps : CallListing(c, op)
    \/ \E c \in Serial, nb \in Amounts, bid \in Amounts : CallUpdateBidAndBudget(c, nb, bid)
    \/ \E c \in Serial, s \in Strategies : CallUpdateBiddingStrategy(c, s)
    \/ \E c \in Serial, reply \in TokenReplies : AuthInitialReply(c, reply)
    \/ \E c \in Serial, resp \in Responses : Attempt1(c, resp)
    \/ \E c \in Serial, reply \in TokenReplies : RefreshReply(c, reply)
    \/ \E c \in Serial, resp \in Responses : Attempt2(c, resp)
    \/ \E c \in Serial : ReturnToCaller(c)

Spec == Init /\ [][Next]_vars

\* ------------------------------------------- interleaved _make_request
\* Coroutines of one event loop interleave at their awaits: each action
\* above runs from one await to the next, so letting any caller take the
\* next step gives every interleaving.  The answers are cut down to what
\* _make_request branches on.
ConcMethods == {"GET", "POST"}
ConcResponses == { [net_ok |-> FALSE, status |-> 0, body |-> [results |-> <<>>]] }
                 \cup { [net_ok |-> TRUE, status |-> s, body |-> [results |-> <<>>]] :
                        s \in Statuses }

\* _make_request called while other calls may be in progress.
ConcCallRequest(c, m) ==
    /\ client = "ready" /\ call[c].op = "idle"
    /\ call' = [call EXCEPT ![c] =
                  Enter(Fresh("request", <<>>, <<>>, "none"), m, "single", access_token)]
    /\ UNCHANGED <<client, env, access_token>>

NextConc ==
    \/ Construct
    \/ \E c \in Callers, m \in ConcMethods : ConcCallRequest(c, m)
    \/ \E c \in Callers, reply \in TokenReplies : AuthInitialReply(c, reply)
    \/ \E c \in Callers, resp \in ConcResponses : Attempt1(c, resp)
    \/ \E c \in Callers, reply \in TokenReplies : RefreshReply(c, reply)
    \/ \E c \in Callers, resp \in ConcResponses : Attempt2(c, resp)
    \/ \E c \in Callers : ReturnToCaller(c)

SpecConc == Init /\ [][NextConc]_vars

\* ================================================================ claims
\* Readings of the network log of one _make_request.
ApiIdx(l) == { i \in 1..Len(l) : l[i].ev = "api" }
AuthIdx(l) == { i \in 1..Len(l) : l[i].ev = "auth" }
NApi(l) == Cardinality(ApiIdx(l))
NAuth(l) == Cardinality(AuthIdx(l))
\* The index in l of its n-th API attempt (n <= NApi(l)).
NthApi(l, n) == CHOOSE i \in ApiIdx(l) : Cardinality({ j \in ApiIdx(l) : j <= i }) = n
\* The token exchanges made after the first API attempt.
RefreshIdx(l) == { i \in AuthIdx(l) : \E j \in ApiIdx(l) : j < i }
\* The first attempt was answered 401 and the retry was answered status s.
Got401Then(l, s) ==
    /\ NApi(l) >= 2
    /\ l[NthApi(l, 1)].ok /\ l[NthApi(l, 1)].status = 401
    /\ l[NthApi(l, 2)].ok /\ l[NthApi(l, 2)].status = s
\* The _make_request of caller c has returned or raised.
Finished(c) == call[c].res.kind \in {"return", "raise"}

\* C1: a request whose first attempt is answered 401 and whose retry is
\* answered 200 returns the body of the retry's answer, after exactly two API
\* attempts and exactly one token exchange beyond the one (if any) that
\* obtained the initial token; the retry carries the token that exchange
\* returned.
C1_RetryAfter401Succeeds ==
    \A c \in Callers :
        LET l == call[c].rlog IN
        (call[c].method \in {"GET", "POST"} /\ Got401Then(l, 200)) =>
            /\ call[c].res.kind = "return"
            /\ call[c].res.json = <<call[c].last.body>>
            /\ NApi(l) = 2
            /\ Cardinality(RefreshIdx(l)) = 1
            /\ NAuth(l) = (IF Truthy(call[c].tok0) THEN 1 ELSE 2)
            /\ \A i \in RefreshIdx(l) :
                  /\ l[i].ok
                  /\ i = NthApi(l, 1) + 1 /\ NthApi(l, 2) = i + 1
                  /\ l[NthApi(l, 2)].tok = l[i].tok

\* C1 witness: a direct request that was answered 401, refreshed to another
\* token and returned the retry's body.
C1_Witness ==
    \E c \in Callers :
        /\ call[c].op = "request" /\ call[c].pc = "done"
        /\ Got401Then(call[c].rlog, 200)
        /\ call[c].out.kind = "return"
        /\ call[c].rlog[NthApi(call[c].rlog, 2)].tok # call[c].rlog[NthApi(call[c].rlog, 1)].tok

\* C2: a request whose first attempt and retry are both answered 401 raises
\* the API error with status 401 after exactly two attempts and one refresh;
\* it is over then (no third attempt, no second refresh).
C2_Double401Fails ==
    \A c \in Callers :
        LET l == call[c].rlog IN
        Got401Then(l, 401) =>
            /\ call[c].res = Raise(401, "Google Ads API error", <<call[c].last.body>>)
            /\ call[c].pc = "done"
            /\ NApi(l) = 2
            /\ Cardinality(RefreshIdx(l)) = 1
            /\ NthApi(l, 2) = Len(l)

\* C2 witness: a direct request answered 401 twice has raised status 401.
C2_Witness ==
    \E c \in Callers :
        /\ call[c].op = "request" /\ call[c].pc = "done"
        /\ Got401Then(call[c].rlog, 401)
        /\ call[c].out.kind = "raise" /\ call[c].out.status = 401

\* C3: a request makes at most two API attempts, a second one only after a
\* first answered 401, and an attempt that ends in a transport error or in a
\* status other than 401 is the last network call of the request (no token
\* refresh, no retry follows it).
C3_AtMostOneRetryOnlyOn401 ==
    \A c \in Callers :
        LET l == call[c].rlog IN
        /\ NApi(l) <= 2
        /\ NApi(l) = 2 => (l[NthApi(l, 1)].ok /\ l[NthApi(l, 1)].status = 401)
        /\ \A i \in ApiIdx(l) :
              (~l[i].ok \/ l[i].status # 401) => (i = Len(l) /\ Finished(c))

\* C3 witness: a request whose first attempt ended in a transport error has
\* raised after that single attempt.
C3_Witness ==
    \E c \in Callers :
        /\ call[c].pc = "done" /\ NApi(call[c].rlog) = 1
        /\ ~call[c].rlog[Len(call[c].rlog)].ok
        /\ call[c].rlog[Len(call[c].rlog)].ev = "api"
        /\ call[c].res = CommError

\* C4 (as claimed): when the first attempt is answered a status s other than
\* 401, the request returns the parsed body if s is 2xx and raises the API
\* error with status s and the body otherwise, with one attempt and no
\* refresh.
C4_Non401FirstAttempt ==
    \A c \in Callers :
        LET l == call[c].rlog IN
        (NApi(l) >= 1 /\ l[NthApi(l, 1)].ok /\ l[NthApi(l, 1)].status # 401) =>
            LET s == l[NthApi(l, 1)].status IN
            /\ NApi(l) = 1 /\ RefreshIdx(l) = {}
            /\ s \in 200..299 => call[c].res = ReturnJson(call[c].last.body)
            /\ s \notin 200..299 =>
                  call[c].res = Raise(s, "Google Ads API error", <<call[c].last.body>>)

\* C5: construction raises the configuration error exactly when one of the
\* five credentials is unset or empty; otherwise it succeeds, leaving the
\* cached token empty; and it makes no network call (no caller's network
\* log or counter changes).
C5_ConstructValidatesCredentials ==
    [][ (client = "unbuilt" /\ client' # "unbuilt") =>
          /\ (client' = "config_error") <=> (\E k \in CredNames : env[k] \in {"None", ""})
          /\ (client' = "ready") <=> (\A k \in CredNames : env[k] = "set")
          /\ client' = "ready" => access_token' = NoToken
          /\ \A c \in Callers : call'[c].net = 0 /\ call'[c].rlog = <<>> ]_vars

\* C5 witness: construction has failed with exactly one credential missing,
\* set to the empty string.
C5_Witness ==
    /\ client = "config_error"
    /\ Cardinality({ k \in CredNames : env[k] # "set" }) = 1
    /\ \E k \in CredNames : env[k] = ""

\* C6: within a request the token exchange happens only as its first network
\* call when the request found no cached token, or right after a first
\* attempt answered 401; a request that found a cached token sends it on its
\* first attempt, and makes no token exchange at all when that attempt is not
\* answered 401.
C6_AuthenticateOnlyWhenNeeded ==
    \A c \in Callers :
        LET l == call[c].rlog IN
        /\ \A i \in AuthIdx(l) :
              \/ i = 1 /\ ~Truthy(call[c].tok0)
              \/ /\ i > 1 /\ NApi(l) >= 1 /\ i = NthApi(l, 1) + 1
                 /\ l[i - 1].ok /\ l[i - 1].status = 401
        /\ (Truthy(call[c].tok0) /\ Len(l) >= 1) =>
              /\ l[1].ev = "api" /\ l[1].tok = call[c].tok0
              /\ (~l[1].ok \/ l[1].status # 401) => NAuth(l) = 0

\* C6 witness: a direct request that found a cached token was answered 200 on
\* its only network call, which carried that token.
C6_Witness ==
    \E c \in Callers :
        /\ call[c].op = "request" /\ call[c].pc = "done"
        /\ Truthy(call[c].tok0) /\ Len(call[c].rlog) = 1
        /\ call[c].rlog[1].tok = call[c].tok0 /\ call[c].rlog[1].status = 200
        /\ call[c].net = 1

\* C7 (as claimed): update_bidding_strategy called with a name outside the
\* six valid strategies makes no network call (token exchange, lookup or
\* mutate) and, once over, has raised status 400.
C7_InvalidStrategyBeforeNetwork ==
    \A c \in Callers :
        (call[c].op = "update_bidding_strategy" /\ call[c].strategy \notin ValidStrategies) =>
            /\ call[c].net = 0
            /\ call[c].pc = "done" =>
                  (call[c].out.kind = "raise" /\ call[c].out.status = 400)

\* C8: update_bid_and_budget called with neither amount raises status 400 at
\* once: in the step of the call it is over, no network call has been made
\* and the cached token is what it was.
C8_NeitherAmountRejected ==
    [][ \A c \in Callers :
          (call[c].op = "idle" /\ call'[c].op = "update_bid_and_budget"
             /\ call'[c].new_budget = <<>> /\ call'[c].new_bid = <<>>) =>
            /\ call'[c].pc = "done"
            /\ call'[c].out.kind = "raise" /\ call'[c].out.status = 400
            /\ call'[c].net = 0 /\ call'[c].mutates = 0
            /\ access_token' = access_token ]_vars

\* C8 witness: with a token cached, update_bid_and_budget with neither amount
\* has raised status 400 without a network call.
C8_Witness ==
    \E c \in Callers :
        /\ call[c].op = "update_bid_and_budget" /\ call[c].pc = "done"
        /\ call[c].new_budget = <<>> /\ call[c].new_bid = <<>>
        /\ call[c].out.status = 400 /\ call[c].net = 0
        /\ Truthy(access_token)

\* The rows of a parsed search body (none when it has no "results" key).
RowsOf(b) == IF b.results = <<>> THEN <<>> ELSE b.results[1]
\* The campaign lookup of caller c got its search answered successfully.
LookupAnswered(c) ==
    /\ call[c].op \in {"get_campaign_info", "update_bid_and_budget", "update_bidding_strategy"}
    /\ call[c].phase \in {"single", "lookup"}
    /\ call[c].res.kind = "return"

\* C9: when the search of a campaign lookup succeeds with no row, the call
\* ends raising status 404, in the update methods too, where no mutate
\* request is made; with at least one row _get_campaign_info returns the
\* campaign object of the first row (the empty object when that row has
\* none).
C9_NotFoundOnNoRows ==
    \A c \in Callers :
        LookupAnswered(c) =>
            LET rows == RowsOf(call[c].last.body) IN
            /\ Len(rows) = 0 =>
                  /\ call[c].pc = "done" /\ call[c].mutates = 0
                  /\ call[c].out.kind = "raise" /\ call[c].out.status = 404
            /\ (Len(rows) > 0 /\ call[c].op = "get_campaign_info") =>
                  /\ call[c].out.kind = "return"
                  /\ call[c].out.campaign =
                        (IF rows[1].campaign = <<>> THEN <<EmptyCampaign>>
                         ELSE rows[1].campaign)

\* C9 witness: an update method whose lookup was answered 200 with an empty
\* result list has raised status 404 without a mutate request.
C9_Witness ==
    \E c \in Callers :
        /\ call[c].op \in {"update_bid_and_budget", "update_bidding_strategy"}
        /\ LookupAnswered(c) /\ call[c].last.body = [results |-> << <<>> >>]
        /\ call[c].out.status = 404 /\ call[c].mutates = 0

\* The field an update method mutates.
FieldOf(op) == IF op = "update_bid_and_budget" THEN "budget" ELSE "bidding_strategy"
\* The mutate request of caller c has returned or raised.
MutateOver(c) ==
    /\ call[c].op \in {"update_bid_and_budget", "update_bidding_strategy"}
    /\ call[c].phase = "mutate" /\ Finished(c)

\* C10: once the mutate request of an update method is over the method
\* returns (never raises) a status dict with exactly one entry for the
\* mutated field: success is false and the entry "failed" when the request
\* raised, success is true and the entry "success" when it returned.
C10_MutateFailureIsReturned ==
    \A c \in Callers :
        MutateOver(c) =>
            /\ call[c].pc = "done" /\ call[c].out.kind = "return"
            /\ LET r == call[c].out.response[1]
                   es == { i \in 1..Len(r.updates) : r.updates[i].type = FieldOf(call[c].op) }
               IN /\ Cardinality(es) = 1
                  /\ r.success <=> (call[c].res.kind = "return")
                  /\ \A i \in es :
                        r.updates[i].status =
                            (IF call[c].res.kind = "return" THEN "success" ELSE "failed")

\* C10 witness: a budget update whose mutate request failed on the token
\* refresh has returned success = false.
C10_Witness ==
    \E c \in Callers :
        /\ MutateOver(c) /\ call[c].op = "update_bid_and_budget"
        /\ call[c].res = AuthError
        /\ call[c].out.kind = "return" /\ ~call[c].out.response[1].success

C12_BadMethodBeforeNetwork ==
    \A c \in Callers :
        (call[c].op = "request" /\ call[c].method \notin {"GET", "POST"}) =>
            /\ call[c].net = 0
            /\ access_token = call[c].tok0

\* The public methods, and among them those that update a campaign.
UpdateOps == {"update_bid_and_budget", "update_bidding_strategy"}
PublicOps == ListOps \cup UpdateOps

\* C13 (as claimed): a call of a public method makes at most two API round
\* trips, whatever the server answers.
C13_AtMostTwoRoundTrips ==
    \A c \in Callers : call[c].op \in PublicOps => call[c].api <= 2

\* C13 (amended): every _make_request makes at most two API round trips; the
\* three listing methods make one request, so at most two round trips; the
\* two update methods make the lookup request and at most one mutate
\* request, so at most four round trips.
C13_RoundTripsPerRequest ==
    \A c \in Callers :
        /\ NApi(call[c].rlog) <= 2
        /\ call[c].op \in ListOps => (call[c].api <= 2 /\ call[c].mutates = 0)
        /\ call[c].op \in UpdateOps =>
              (call[c].mutates <= 1 /\ call[c].api <= 2 * (1 + call[c].mutates))

\* C13 witness: an update method is over after four API round trips, two for
\* the lookup and two for the mutate.
C13_Witness ==
    \E c \in Callers :
        /\ call[c].op \in UpdateOps /\ call[c].pc = "done"
        /\ call[c].api = 4 /\ call[c].mutates = 1
        /\ NApi(call[c].rlog) = 2

\* The token of the refresh exchange in log l (one that succeeded).
Refreshed(l) == \E i \in RefreshIdx(l) : l[i].ok
RefreshToken(l) == l[CHOOSE i \in RefreshIdx(l) : l[i].ok].tok
\* The first attempt in log l was answered 401.
FirstGot401(l) == NApi(l) >= 1 /\ l[NthApi(l, 1)].ok /\ l[NthApi(l, 1)].status = 401

\* What holds of interleaved requests in every state: each caller whose
\* first attempt was answered 401 makes its own token exchange next, whatever
\* the other caller has refreshed meanwhile; each makes at most one retry,
\* which carries the token its own exchange returned; and once two callers
\* that both refreshed are over, the cached token is one of the two tokens
\* their exchanges returned, hence non-empty.
RefreshRaceState ==
    /\ \A c \in Callers :
          LET l == call[c].rlog IN
          /\ NApi(l) <= 2
          /\ FirstGot401(l) =>
                \/ call[c].pc = "refresh" /\ Len(l) = NthApi(l, 1)
                \/ Len(l) > NthApi(l, 1) /\ l[NthApi(l, 1) + 1].ev = "auth"
          /\ NApi(l) = 2 =>
                /\ Refreshed(l)
                /\ NthApi(l, 2) = NthApi(l, 1) + 2
                /\ l[NthApi(l, 2)].tok = RefreshToken(l)
    /\ \A a \in Callers : \A b \in Callers \ {a} :
          (/\ call[a].pc = "done" /\ call[b].pc = "done"
           /\ Refreshed(call[a].rlog) /\ Refreshed(call[b].rlog)) =>
              /\ access_token \in {RefreshToken(call[a].rlog), RefreshToken(call[b].rlog)}
              /\ Truthy(access_token)

Logged(c) == Len(call'[c].rlog) = Len(call[c].rlog) + 1
LoggedEvent(c) == call'[c].rlog[Len(call'[c].rlog)]

====
